---- MODULE Spec2Model ----
(***************************************************************************)
(* slackclean (src/cli.go): one sequential run that lists the identities,  *)
(* the conversations, the files and the messages of a workspace, selects   *)
(* what is older than the --before cutoff and, with --commit, deletes it.  *)
(*                                                                         *)
(* A Go string is a sequence of byte codes (ASCII), so that the string     *)
(* comparisons, the slicing and the pattern match of the code are computed *)
(* and not assumed.  Identifiers that the code only tests for equality     *)
(* (user ids, conversation ids, file ids) are TLA+ strings.                *)
(***************************************************************************)
EXTENDS Integers, Sequences, FiniteSets, TLC

(***************************************************************************)
(* Strings                                                                 *)
(***************************************************************************)
Dot   == 46
Dash  == 45
Comma == 44
Zero  == 48

IsDigit(c) == c >= 48 /\ c <= 57

\* regexp flag (?i): letters are compared without case (cli.go line 233).
Lower(c) == IF c >= 65 /\ c <= 90 THEN c + 32 ELSE c

LowerStr(s) == [i \in 1..Len(s) |-> Lower(s[i])]

\* Go's s[a:b] with 0-based half-open bounds; the caller checks the bounds.
Slice(s, a, b) == [i \in 1..(b - a) |-> s[a + i]]

\* Go's operator < on strings: bytewise lexicographic order.
RECURSIVE StrLess(_, _)
StrLess(a, b) ==
    IF b = <<>> THEN FALSE
    ELSE IF a = <<>> THEN TRUE
    ELSE IF Head(a) # Head(b) THEN Head(a) < Head(b)
    ELSE StrLess(Tail(a), Tail(b))

\* Go's operator > on strings, as used at cli.go line 325.
StrGreater(a, b) == StrLess(b, a)

\* strings.Contains / an unanchored match of a literal.
Contains(s, t) ==
    \E i \in 0..(Len(s) - Len(t)) : Slice(s, i, i + Len(t)) = t

\* The alternatives of the pattern built at line 233: the filter with every ","
\* replaced by "|", i.e. the comma-separated terms.
RECURSIVE SplitComma(_)
SplitComma(s) ==
    IF \A i \in 1..Len(s) : s[i] # Comma THEN <<s>>
    ELSE LET k == CHOOSE i \in 1..Len(s) :
                     s[i] = Comma /\ \A j \in 1..(i - 1) : s[j] # Comma
         IN  <<Slice(s, 0, k - 1)>> \o SplitComma(Slice(s, k, Len(s)))

\* re.MatchString(name) for re = (?i)(t1|t2|...), terms being plain literals.
MatchString(filter, name) ==
    LET terms == SplitComma(filter)
    IN  \E k \in 1..Len(terms) : Contains(LowerStr(name), LowerStr(terms[k]))

\* fmt.Sprintf("%d", n) for n >= 0.
RECURSIVE Digits(_)
Digits(n) ==
    IF n < 10 THEN <<Zero + n>>
    ELSE Digits(n \div 10) \o <<Zero + (n % 10)>>

\* The value of a string of decimal digits.
RECURSIVE Atoi(_)
Atoi(s) ==
    IF s = <<>> THEN 0
    ELSE 10 * Atoi(Slice(s, 0, Len(s) - 1)) + (s[Len(s)] - Zero)

(***************************************************************************)
(* Time                                                                    *)
(***************************************************************************)
IsLeap(y) == (y % 4 = 0 /\ y % 100 # 0) \/ y % 400 = 0

DaysIn(y, m) ==
    IF m = 2 THEN (IF IsLeap(y) THEN 29 ELSE 28)
    ELSE IF m \in {4, 6, 9, 11} THEN 30 ELSE 31

\* Days from 1970-01-01 to the civil date y-m-d (y >= 1970).
DaysFromCivil(y, m, d) ==
    LET yy  == IF m <= 2 THEN y - 1 ELSE y
        era == yy \div 400
        yoe == yy - era * 400
        mp  == IF m > 2 THEN m - 3 ELSE m + 9
        doy == (153 * mp + 2) \div 5 + d - 1
        doe == yoe * 365 + yoe \div 4 - yoe \div 100 + doy
    IN  era * 146097 + doe - 719468

\* time.Parse("20060102-1504", before): four digits of year, two of month, two
\* of day, "-", two of hour, two of minute, each field in its range, UTC.
\* The result is the Unix time in seconds, or an error.
ParseBefore(before) ==
    IF \/ Len(before) # 13
       \/ \E i \in 1..Len(before) :
              IF i = 9 THEN before[i] # Dash ELSE ~IsDigit(before[i])
    THEN [err |-> TRUE, unix |-> 0]
    ELSE LET y  == Atoi(Slice(before, 0, 4))
             m  == Atoi(Slice(before, 4, 6))
             d  == Atoi(Slice(before, 6, 8))
             hh == Atoi(Slice(before, 9, 11))
             mi == Atoi(Slice(before, 11, 13))
         IN  IF \/ m < 1 \/ m > 12
                \/ d < 1 \/ d > DaysIn(y, m)
                \/ hh > 23 \/ mi > 59
             THEN [err |-> TRUE, unix |-> 0]
             ELSE [err  |-> FALSE,
                   unix |-> DaysFromCivil(y, m, d) * 86400 + hh * 3600 + mi * 60]

\* fmt.Sprintf("%d", t.UnixNano()/1000) for the instant sec seconds and usec
\* microseconds (sec >= 0, 0 <= usec < 10^6): the decimal digits of
\* sec * 10^6 + usec, written without forming the product.
MicroDigits(sec, usec) ==
    IF sec = 0 THEN Digits(usec)
    ELSE LET u == Digits(usec)
         IN  Digits(sec) \o [i \in 1..(6 - Len(u)) |-> Zero] \o u

\* SlackClean.TimeToSlackTS: ts[0:len(ts)-6] + "." + ts[len(ts)-6:].  Slicing
\* with a negative bound panics (a ts of fewer than 6 digits).
TimeToSlackTS(sec, usec) ==
    LET ts == MicroDigits(sec, usec)
    IN  IF Len(ts) < 6 THEN [panic |-> TRUE, ts |-> <<>>]
        ELSE [panic |-> FALSE,
              ts    |-> Slice(ts, 0, Len(ts) - 6) \o <<Dot>>
                        \o Slice(ts, Len(ts) - 6, Len(ts))]

\* The encoded form of a valid Slack timestamp, "<seconds>.<6 digits>".
EncodeTS(sec, usec) ==
    LET u == Digits(usec)
    IN  Digits(sec) \o <<Dot>> \o [i \in 1..(6 - Len(u)) |-> Zero] \o u

\* SlackClean.SlackTSToTime: strings.Split(ts, "."), ParseInt of both parts,
\* time.Unix(sec, nsec*1000); the instant as seconds and microseconds.
SlackTSToTime(ts) ==
    LET k == CHOOSE i \in 1..Len(ts) : ts[i] = Dot
    IN  [sec |-> Atoi(Slice(ts, 0, k - 1)), usec |-> Atoi(Slice(ts, k, Len(ts)))]

(***************************************************************************)
(* The run's state                                                         *)
(***************************************************************************)
VARIABLES
    pc,                \* where the run is: the call or loop head it executes next
    panicked,          \* the value of the panic that ended the run, "" if none
    token, user, before, commit,   \* main's flags (lines 37-49)
    beforeTS, beforeTSUnix,                \* SlackClean's fields (lines 101-102)
    users, userID,     \* the results of Users (line 72)
    re,                \* the compiled pattern of Channels (line 231)
    channels,          \* the result of Channels (line 75)
    cursor,            \* the cursor of Channels (line 228) and of Messages (line 301)
    ci,                \* the position of the range over channels (lines 185, 298)
    p,                 \* the request parameters of Files (line 186) and of the replies (line 353)
    filesToDelete,     \* Files' result (line 182)
    messagesToDelete, found, keep, total, last,   \* Messages' result and counters
    res, mj,           \* the history page being ranged over and the position in it
    di,                \* the position of the range of DeleteMessages / DeleteFiles
    remote,            \* the workspace: the listings being read and what was deleted
    lastCall,          \* the last remote call the run issued, with its outcome
    issued,            \* the remote operations issued so far
    resolved,          \* the items whose delete resolved in this pass, in order
    seen,              \* the history messages ranged over in the current conversation
    origin,            \* for each entry of messagesToDelete, the listing it came from
    pass,              \* which run of the deletion passes this is
    arg,               \* the arguments of a call of the timestamp functions on their own
    ret                \* what that call returned

flagVars    == <<token, user, before, commit>>
cleanVars   == <<beforeTS, beforeTSUnix>>
userVars    == <<users, userID>>
fileVars    == <<filesToDelete>>
msgVars     == <<messagesToDelete, found, keep, total, last>>
pageVars    == <<res, mj>>
obsVars     == <<lastCall, issued, resolved, seen, origin, pass>>
tsVars      == <<arg, ret>>
vars_run == <<pc, panicked, flagVars, cleanVars, userVars, re, channels, cursor,
              ci, p, fileVars, msgVars, pageVars, di, remote, obsVars>>
vars == <<vars_run, tsVars>>

(***************************************************************************)
(* Bounds of the workspace the run is checked against                      *)
(***************************************************************************)
MaxPages   == 2    \* pages of one listing
MaxConvs   == 1    \* conversations of the workspace
MaxFiles   == 1    \* entries of all the file listings of the workspace
MaxMsgs    == 1    \* messages of all the histories of the workspace
MaxReplies == 1    \* entries of all the reply listings of the workspace
MaxFileList == 3   \* length of filesToDelete at which the model stops a run
MaxPasses  == 2    \* runs of the deletion passes over one deletion set

(***************************************************************************)
(* Literals                                                                *)
(***************************************************************************)
NoStr   == <<>>
Alice   == <<97, 108, 105, 99, 101>>                 \* "alice"
Bob     == <<98, 111, 98>>                           \* "bob"
Carol   == <<99, 97, 114, 111, 108>>                 \* "carol"
Tech    == <<84, 101, 99, 104>>                      \* "Tech"
Secret  == <<115, 101, 99, 114, 101, 116>>           \* "secret"
FTech   == <<116, 101, 99, 104>>                     \* "tech"
FBobSec == <<98, 111, 98, 44, 115, 101, 99>>         \* "bob,sec"
FPeer   == <<117, 57>>                               \* "u9"

\* Values of --before: none, not in the layout, a day that does not exist,
\* the epoch itself, and 2020-05-01 00:00 (the README's example).
BeforeInputs ==
    { NoStr,
      <<50, 48, 50, 48, 45, 48, 53, 45, 48, 49>>,                      \* "2020-05-01"
      <<50, 48, 50, 48, 48, 50, 51, 48, 45, 48, 48, 48, 48>>,          \* "20200230-0000"
      <<49, 57, 55, 48, 48, 49, 48, 49, 45, 48, 48, 48, 48>>,          \* "19700101-0000"
      <<50, 48, 50, 48, 48, 53, 48, 49, 45, 48, 48, 48, 48>> }         \* "20200501-0000"

TokenInputs  == {"", "xoxp-1"}
UserInputs   == {NoStr, Alice, Carol}
FilterInputs == {NoStr, FTech, FBobSec, FPeer}

\* Errors of the remote API, by their text (err.Error()).
ErrRateLimited == "slack rate limit exceeded, retry after 1s"
ErrInternal    == "internal_error"
ErrMsgGone     == "message_not_found"
ErrFileGone    == "file_not_found"
Failures       == {ErrRateLimited, ErrInternal}

\* strings.Contains(err.Error(), "rate limit")
ContainsRateLimit(err) == err = ErrRateLimited

(***************************************************************************)
(* The workspace: identities, conversations, files, messages               *)
(***************************************************************************)
UserDir ==
    << [ID |-> "U1", Name |-> Alice], [ID |-> "U2", Name |-> Bob] >>

Conv(id, name, mpim, im, priv, peer) ==
    [ID |-> id, Name |-> name, IsMpIM |-> mpim, IsIM |-> im,
     IsPrivate |-> priv, User |-> peer]

ConvUniverse ==
    << Conv("C1", Tech,   FALSE, FALSE, FALSE, ""),
       Conv("G1", Secret, FALSE, FALSE, TRUE,  ""),
       Conv("D1", NoStr,  FALSE, TRUE,  FALSE, "U2"),
       Conv("D2", NoStr,  FALSE, TRUE,  FALSE, "U9") >>

\* Files around the cutoff c (Unix seconds), owned by either identity.
FileUniverse(c) ==
    << [ID |-> "F1", Created |-> c - 1, User |-> "U1"],
       [ID |-> "F2", Created |-> c,     User |-> "U2"],
       [ID |-> "F3", Created |-> c - 86400, User |-> "U2"] >>

Msg(sec, usec, author, root) ==
    [Timestamp |-> EncodeTS(sec, usec), User |-> author,
     ThreadTimestamp |-> IF root THEN EncodeTS(sec, usec) ELSE NoStr,
     Channel |-> ""]

\* History messages around the cutoff c: just before, exactly at, after, and
\* an old thread parent.
MsgUniverse(c) ==
    << Msg(c - 1, 999999, "U1", FALSE),
       Msg(c, 0, "U2", FALSE),
       Msg(c + 86400, 0, "U2", FALSE),
       Msg(c - 864000, 0, "U2", TRUE) >>

\* What the reply listing of the thread of parent m may hold: the parent
\* itself (conversations.replies lists it first) and a reply by U1 after the
\* cutoff c.
ReplyUniverse(m, c) ==
    << [m EXCEPT !.Channel = ""],
       [Msg(c + 5, 0, "U1", FALSE) EXCEPT !.ThreadTimestamp = m.Timestamp] >>

\* The subsequences of u of at most n items.
SubSeqs(u, n) ==
    LET pick(S) ==
            LET RECURSIVE build(_)
                build(i) == IF i > Len(u) THEN <<>>
                            ELSE (IF i \in S THEN <<u[i]>> ELSE <<>>) \o build(i + 1)
            IN  build(1)
    IN  { pick(S) : S \in {T \in SUBSET (1..Len(u)) : Cardinality(T) <= n} }

\* The ways to cut the sequence q into at least 1 and at most k pages (a page
\* may be empty).
RECURSIVE Splits(_, _)
Splits(q, k) ==
    {<<q>>} \cup
    (IF k <= 1 THEN {}
     ELSE UNION { { <<Slice(q, 0, c)>> \o r : r \in Splits(Slice(q, c, Len(q)), k - 1) }
                  : c \in 0..Len(q) })

\* A listing: pages, each naming the cursor of the next one.  The cursor is 0
\* for the empty string, and i for the opaque cursor that names page i + 1.
Paginate(pages) ==
    [i \in 1..Len(pages) |->
        [items   |-> pages[i],
         next    |-> IF i < Len(pages) THEN i ELSE 0,
         hasMore |-> i < Len(pages)]]

Listings(u, n) ==
    { Paginate(pg) : pg \in UNION { Splits(q, MaxPages) : q \in SubSeqs(u, n) } }

NoListing == <<>>

\* The reply listing of a thread is served page by page: pos is the place in
\* ReplyUniverse of the last reply served, served the number of pages served.
NoReplies == [pos |-> 0, served |-> 0]

\* The pages the remote may serve next for a thread: at most left further
\* items of u after st.pos, in order, and whether more pages follow (at most
\* MaxPages pages in all).  The next cursor names the page after this one.
ReplyPages(u, st, left) ==
    { [items   |-> SelectSeq(u, LAMBDA x : \E i \in T : u[i] = x),
       pos     |-> IF T = {} THEN st.pos
                   ELSE CHOOSE i \in T : \A j \in T : j <= i,
       next    |-> IF h THEN st.served + 1 ELSE 0,
       hasMore |-> h] :
      T \in {S \in SUBSET ((st.pos + 1)..Len(u)) : Cardinality(S) <= left},
      h \in IF st.served + 1 < MaxPages THEN BOOLEAN ELSE {FALSE} }

NoParams == [Channel |-> "", User |-> "", Timestamp |-> NoStr, Cursor |-> 0]

\* A nil *regexp.Regexp, and the one compiled from a filter.
NoRegexp == [nil |-> TRUE, pattern |-> NoStr]

\* The page the remote serves for a cursor.
PageAt(listing, cur) == listing[cur + 1]

Flatten(listing) ==
    LET RECURSIVE cat(_)
        cat(i) == IF i > Len(listing) THEN <<>>
                  ELSE listing[i].items \o cat(i + 1)
    IN  cat(1)

\* The arguments that name an item to its delete call (lines 412 and 432).
MsgKey(m)  == <<m.Channel, m.Timestamp>>
FileKey(f) == <<f.ID>>

(***************************************************************************)
(* Remote calls                                                            *)
(***************************************************************************)
Call(op, args, outcome) == [op |-> op, args |-> args, outcome |-> outcome]

NoCall == Call("none", <<>>, "none")

ListingOps == {"GetUsers", "GetConversations", "ListFiles",
               "GetConversationHistory", "GetConversationReplies"}
DeleteOps  == {"DeleteMessage", "DeleteFile"}

Issue(op, args, outcome) ==
    /\ lastCall' = Call(op, args, outcome)
    /\ issued' = issued \cup {op}

\* ratelimitOrPanic without its panic: every error is waited out.
ratelimitNeverPanics(err) == "return"

\* SlackClean.ratelimitOrPanic: panic unless the error text contains
\* "rate limit"; otherwise sleep one second and return.
ratelimitOrPanic(err) ==
    IF ~ContainsRateLimit(err) THEN "panic" ELSE "return"

\* An unrecovered panic ends the process.
Panic(value) ==
    /\ pc' = "aborted"
    /\ panicked' = value

(***************************************************************************)
(* Init: the process before pflag.Parse, every flag at its default.        *)
(***************************************************************************)
Idle ==
    /\ pc = "main"
    /\ panicked = ""
    /\ token = "" /\ user = NoStr /\ before = NoStr
    /\ commit = FALSE
    /\ beforeTS = NoStr /\ beforeTSUnix = 0
    /\ users = <<>> /\ userID = ""
    /\ re = NoRegexp
    /\ channels = <<>>
    /\ cursor = 0
    /\ ci = 0
    /\ p = NoParams
    /\ filesToDelete = <<>>
    /\ messagesToDelete = <<>> /\ found = 0 /\ keep = 0 /\ total = 0 /\ last = 0
    /\ res = [Messages |-> <<>>, HasMore |-> FALSE, NextCursor |-> 0]
    /\ mj = 0
    /\ di = 0
    /\ remote = [convs |-> NoListing, files |-> NoListing, msgs |-> NoListing,
                 replies |-> NoReplies, goneMsgs |-> {}, goneFiles |-> {},
                 filesLeft |-> MaxFiles, msgsLeft |-> MaxMsgs,
                 repliesLeft |-> MaxReplies]
    /\ lastCall = NoCall
    /\ issued = {}
    /\ resolved = <<>>
    /\ seen = <<>>
    /\ origin = <<>>
    /\ pass = 1

NoArg == [before |-> NoStr, sec |-> 0, usec |-> 0]
NoRet == [of |-> "none"]

Init ==
    /\ Idle
    /\ arg = NoArg
    /\ ret = NoRet

(***************************************************************************)
(* main, lines 51-64: parse the flags, fall back to MY_SLACK_TOKEN, refuse *)
(* a missing token or a missing --before.                                  *)
(***************************************************************************)
Main ==
    /\ pc = "main"
    /\ \E tokenFlag \in TokenInputs, env \in TokenInputs, u \in UserInputs,
          b \in BeforeInputs, c \in BOOLEAN :
          LET tok == IF tokenFlag = "" THEN env ELSE tokenFlag
          IN  /\ token' = tok
              /\ user' = u /\ before' = b /\ commit' = c
              /\ IF tok = ""
                 THEN Panic("--token flag (or MY_SLACK_TOKEN env var) required but missing")
                 ELSE IF b = NoStr
                      THEN Panic("--before flag is required but missing")
                      ELSE pc' = "new" /\ UNCHANGED panicked
    /\ UNCHANGED <<cleanVars, userVars, re, channels, cursor, ci, p, fileVars,
                   msgVars, pageVars, di, remote, obsVars, tsVars>>

(***************************************************************************)
(* New, lines 110-128: parse --before and derive both forms of the cutoff. *)
(***************************************************************************)
New ==
    /\ pc = "new"
    /\ LET t  == ParseBefore(before)
           ts == TimeToSlackTS(t.unix, 0)
       IN  IF t.err
           THEN Panic("parsing time: cannot parse") /\ UNCHANGED cleanVars
           ELSE IF ts.panic
                THEN Panic("slice bounds out of range") /\ UNCHANGED cleanVars
                ELSE /\ beforeTS' = ts.ts
                     /\ beforeTSUnix' = t.unix
                     /\ pc' = "users"
                     /\ UNCHANGED panicked
    /\ UNCHANGED <<flagVars, userVars, re, channels, cursor, ci, p, fileVars,
                   msgVars, pageVars, di, remote, obsVars, tsVars>>

(***************************************************************************)
(* Users, lines 151-180: one GetUsers call; any error panics.  The id of   *)
(* --user is the id of the last identity of that name.  GetUsers of the    *)
(* slack package pages through the identities and waits out a rate limit   *)
(* itself, so the error it returns is never the rate-limit one.            *)
(***************************************************************************)
Lookup(m, k) == IF k \in DOMAIN m THEN m[k] ELSE NoStr

UsersMap(dir) ==
    [id \in {dir[i].ID : i \in 1..Len(dir)} |->
        LET k == CHOOSE i \in 1..Len(dir) :
                     dir[i].ID = id /\ \A j \in (i + 1)..Len(dir) : dir[j].ID # id
        IN  dir[k].Name]

UserIDOf(dir, name) ==
    LET hits == {i \in 1..Len(dir) : dir[i].Name = name}
    IN  IF name = NoStr \/ hits = {} THEN ""
        ELSE dir[CHOOSE i \in hits : \A j \in hits : j <= i].ID

\* Lines 170-173 left out: an unknown --user goes unnoticed.
UserMissingIgnored(name, id) == FALSE

\* Lines 170-173: --user was given and no identity has that name.
UserMissing(name, id) == name # NoStr /\ id = ""

Users ==
    /\ pc = "users"
    /\ \E outcome \in {"ok", ErrInternal} :
          /\ Issue("GetUsers", <<>>, outcome)
          /\ IF outcome # "ok"
             THEN Panic(outcome) /\ UNCHANGED <<userVars, remote>>
             ELSE LET id == UserIDOf(UserDir, user)
                  IN  /\ users' = UsersMap(UserDir)
                      /\ userID' = id
                      /\ IF UserMissing(user, id)
                         THEN Panic("could not find user") /\ UNCHANGED remote
                         ELSE /\ pc' = "channels"
                              /\ UNCHANGED <<panicked, remote>>
    /\ UNCHANGED <<flagVars, cleanVars, re, channels, cursor, ci, p, fileVars,
                   msgVars, pageVars, di, resolved, seen, origin, pass, tsVars>>

(***************************************************************************)
(* Channels, lines 226-289.                                                *)
(***************************************************************************)
\* The name the pattern is matched against (lines 248-275): the peer's name
\* from the users map for a direct conversation, the conversation's own name
\* otherwise.  A Go map yields "" for a key it does not hold.
ChannelName(c, us) ==
    IF c.IsMpIM THEN c.Name
    ELSE IF c.IsIM THEN Lookup(us, c.User)
    ELSE c.Name

Selected(c, rx, us) == rx.nil \/ MatchString(rx.pattern, ChannelName(c, us))

\* Lines 227-235: the locals of Channels.  The pattern is compiled from the
\* value of --filter, which nothing reads before these lines; the conversation
\* listing of the workspace is what the calls that follow will read.
ChannelsBegin ==
    /\ pc = "channels"
    /\ \E f \in FilterInputs :
          re' = IF f # NoStr THEN [nil |-> FALSE, pattern |-> f] ELSE NoRegexp
    /\ cursor' = 0
    /\ \E l \in Listings(ConvUniverse, MaxConvs) :
          remote' = [remote EXCEPT !.convs = l]
    /\ pc' = "conversations"
    /\ UNCHANGED <<panicked, flagVars, cleanVars, userVars, channels, ci, p,
                   fileVars, msgVars, pageVars, di, obsVars, tsVars>>

\* The request of lines 238-241.
ConversationsRequest(cur) == [Cursor |-> cur]

Channels ==
    /\ pc = "conversations"
    /\ \E outcome \in {"ok"} \cup Failures :
          LET req == ConversationsRequest(cursor)
          IN
          /\ Issue("GetConversations", req, outcome)
          /\ IF outcome # "ok"
             THEN IF ratelimitOrPanic(outcome) = "panic"
                  THEN Panic(outcome) /\ UNCHANGED <<re, channels, cursor, ci, remote>>
                  ELSE UNCHANGED <<pc, panicked, re, channels, cursor, ci, remote>>
             ELSE LET page == PageAt(remote.convs, req.Cursor)
                  IN  /\ channels' = channels \o
                             SelectSeq(page.items, LAMBDA c : Selected(c, re, users))
                      /\ UNCHANGED panicked
                      /\ IF page.next = 0
                         THEN /\ pc' = "files"
                              /\ ci' = 1
                              /\ cursor' = 0
                              /\ re' = NoRegexp
                              /\ remote' = [remote EXCEPT !.convs = NoListing]
                         ELSE /\ cursor' = page.next
                              /\ UNCHANGED <<pc, re, ci, remote>>
    /\ UNCHANGED <<flagVars, cleanVars, userVars, p, fileVars, msgVars,
                   pageVars, di, resolved, seen, origin, pass, tsVars>>

(***************************************************************************)
(* Files, lines 182-224.                                                   *)
(***************************************************************************)
\* Line 206.
FileSelected(f, cutoff) == f.Created < cutoff

\* Lines 185-194: the next channel of the range and its request parameters,
\* or the return of Files.
FilesRange ==
    /\ pc = "files"
    /\ IF ci > Len(channels)
       THEN /\ pc' = "messages"
            /\ ci' = 1
            /\ p' = NoParams
            /\ UNCHANGED remote
       ELSE /\ p' = [Channel |-> channels[ci].ID, User |-> userID,
                     Timestamp |-> NoStr, Cursor |-> 0]
            /\ \E l \in Listings(FileUniverse(beforeTSUnix), remote.filesLeft) :
                  remote' = [remote EXCEPT !.files = l,
                                           !.filesLeft = @ - Len(Flatten(l))]
            /\ pc' = "listfiles"
            /\ UNCHANGED ci
    /\ UNCHANGED <<panicked, flagVars, cleanVars, userVars, re, channels, cursor,
                   fileVars, msgVars, pageVars, di, obsVars, tsVars>>

\* What slack.Client.ListFiles(params) returns: the files of the page (those
\* of params.User only, if set) and a copy of params with the next cursor, or
\* nil, nil and the error.
ListFilesResult(params, listing, outcome) ==
    IF outcome # "ok"
    THEN [res |-> <<>>, pnil |-> TRUE, p |-> params, err |-> outcome]
    ELSE LET page == PageAt(listing, params.Cursor)
         IN  [res  |-> SelectSeq(page.items,
                           LAMBDA f : params.User = "" \/ f.User = params.User),
              pnil |-> FALSE,
              p    |-> [params EXCEPT !.Cursor = page.next],
              err  |-> ""]

\* Lines 196-218, one turn of the loop.  Line 200 declares a new p inside the
\* loop body: the p of line 186, which the next turn passes again, keeps its
\* cursor.  After a rate-limit error the body goes on with res = nil and the
\* new p = nil, and line 213 dereferences it.
ListFiles ==
    /\ pc = "listfiles"
    /\ \E outcome \in {"ok"} \cup Failures :
          LET r == ListFilesResult(p, remote.files, outcome)
              picked == SelectSeq(r.res, LAMBDA f : FileSelected(f, beforeTSUnix))
          IN
          /\ Issue("ListFiles", p, outcome)
          /\ IF r.err # "" /\ ratelimitOrPanic(r.err) = "panic"
             THEN Panic(r.err) /\ UNCHANGED <<filesToDelete, ci, remote>>
             ELSE /\ Len(filesToDelete) + Len(picked) <= MaxFileList
                  /\ filesToDelete' = filesToDelete \o picked
                  /\ IF r.pnil
                     THEN Panic("nil pointer dereference") /\ UNCHANGED <<ci, remote>>
                     ELSE IF r.p.Cursor = 0
                          THEN /\ ci' = ci + 1
                               /\ pc' = "files"
                               /\ remote' = [remote EXCEPT !.files = NoListing]
                               /\ UNCHANGED panicked
                          ELSE UNCHANGED <<pc, panicked, ci, remote>>
    /\ UNCHANGED <<flagVars, cleanVars, userVars, re, channels, cursor, p, msgVars,
                   pageVars, di, resolved, seen, origin, pass, tsVars>>

(***************************************************************************)
(* Messages, lines 291-406.                                                *)
(***************************************************************************)
\* Lines 318-323 left out: the author of a message is not looked at.
KeptByAuthorNever(m, uid) == FALSE

\* Lines 318-323: with --user, a message of that author is kept.
KeptByAuthor(m, uid) == uid # "" /\ m.User = uid

\* Lines 325-328: a message whose timestamp is greater than the cutoff, as
\* strings, is kept.
KeptByTime(m, cutoffTS) == StrGreater(m.Timestamp, cutoffTS)

\* Line 350: the parent message of a thread.
IsThreadParent(m) == m.ThreadTimestamp # NoStr /\ m.Timestamp = m.ThreadTimestamp

\* The request of lines 305-309.
HistoryRequest(c, cur) == [ChannelID |-> c.ID, Cursor |-> cur]

\* Line 388 with the loop left after the first page.
HasMoreHistoryNever(r) == FALSE

\* Line 388 testing the returned cursor in place of the has_more flag.
HasMoreHistoryOnCursor(r) == r.NextCursor # 0

\* Line 388: the loop goes on to another page when the response says so.
HasMoreHistory(r) == r.HasMore

NoPage == [Messages |-> <<>>, HasMore |-> FALSE, NextCursor |-> 0]

\* Lines 298-302: the next channel of the range with a fresh cursor, or the
\* return of Messages (lines 403-405), which prints the counters and leaves
\* messagesToDelete to main; the other locals end with the call.
MessagesRange ==
    /\ pc = "messages"
    /\ IF ci > Len(channels)
       THEN /\ pc' = "report"
            /\ ci' = 0
            /\ found' = 0 /\ keep' = 0 /\ total' = 0 /\ last' = 0
            /\ p' = NoParams
            /\ UNCHANGED <<cursor, remote, seen>>
       ELSE /\ cursor' = 0
            /\ last' = 0
            /\ seen' = <<>>
            /\ UNCHANGED <<ci, p, found, keep, total>>
            /\ \E l \in Listings(MsgUniverse(beforeTSUnix), remote.msgsLeft) :
                  remote' = [remote EXCEPT !.msgs = l,
                                           !.msgsLeft = @ - Len(Flatten(l))]
            /\ pc' = "history"
    /\ UNCHANGED <<panicked, flagVars, cleanVars, userVars, re, channels,
                   fileVars, messagesToDelete, pageVars, di,
                   lastCall, issued, resolved, origin, pass, tsVars>>

\* The has_more flag of a history response.  The response carries the flag
\* and the next cursor as two separate fields (res.HasMore and
\* res.ResponseMetaData.NextCursor, lines 388 and 392): a page that names a
\* next page may come with the flag set or cleared.
HasMoreAnswers(page) == IF page.next # 0 THEN BOOLEAN ELSE {FALSE}

\* Lines 305-313: fetch one page of the history; a rate-limit error repeats
\* the request.
History ==
    /\ pc = "history"
    /\ \E outcome \in {"ok"} \cup Failures :
          LET req == HistoryRequest(channels[ci], cursor)
          IN
          /\ Issue("GetConversationHistory", req, outcome)
          /\ IF outcome # "ok"
             THEN IF ratelimitOrPanic(outcome) = "panic"
                  THEN Panic(outcome) /\ UNCHANGED pageVars
                  ELSE UNCHANGED <<pc, panicked, pageVars>>
             ELSE LET page == PageAt(remote.msgs, req.Cursor)
                  IN  /\ \E hm \in HasMoreAnswers(page) :
                            res' = [Messages |-> page.items, HasMore |-> hm,
                                    NextCursor |-> page.next]
                      /\ mj' = 1
                      /\ pc' = "scan"
                      /\ UNCHANGED panicked
    /\ UNCHANGED <<flagVars, cleanVars, userVars, re, channels, cursor, ci, p,
                   fileVars, msgVars, di, remote, resolved, seen, origin, pass, tsVars>>

\* The counters without the keep++ of lines 320 and 326.
ScanCountNoKeep(kept, cnt) ==
    [total |-> cnt.total + 1, keep |-> cnt.keep,
     found |-> IF kept THEN cnt.found ELSE cnt.found + 1]

\* The counters after one message of a history page: total++ (line 316),
\* then keep++ for a kept message (lines 320, 326) or found++ for a selected
\* one (line 334).
ScanCount(kept, cnt) ==
    [total |-> cnt.total + 1,
     keep  |-> IF kept THEN cnt.keep + 1 ELSE cnt.keep,
     found |-> IF kept THEN cnt.found ELSE cnt.found + 1]

\* Lines 315-357, one message of the page: count it, keep it or append it to
\* messagesToDelete; for a thread parent, set up the request of its replies.
Scan ==
    /\ pc = "scan"
    /\ mj <= Len(res.Messages)
    /\ LET m == res.Messages[mj]
           c == channels[ci]
           kept == KeptByAuthor(m, userID) \/ KeptByTime(m, beforeTS)
           cnt  == ScanCount(kept, [total |-> total, keep |-> keep, found |-> found])
       IN  /\ total' = cnt.total /\ keep' = cnt.keep /\ found' = cnt.found
           /\ seen' = Append(seen, m)
           /\ IF kept
              THEN /\ mj' = mj + 1
                   /\ UNCHANGED <<pc, p, messagesToDelete, remote, origin>>
              ELSE /\ messagesToDelete' =
                          Append(messagesToDelete, [m EXCEPT !.Channel = c.ID])
                   /\ origin' = Append(origin, "history")
                   /\ IF IsThreadParent(m)
                      THEN /\ p' = [Channel |-> c.ID, User |-> "",
                                    Timestamp |-> m.Timestamp, Cursor |-> 0]
                           /\ pc' = "replies"
                           /\ UNCHANGED <<mj, remote>>
                      ELSE /\ mj' = mj + 1
                           /\ UNCHANGED <<pc, p, remote>>
    /\ UNCHANGED <<panicked, flagVars, cleanVars, userVars, re, channels, cursor, ci,
                   fileVars, last, res, di, lastCall, issued, resolved, pass, tsVars>>

\* Lines 358-384, one turn of the reply loop: every reply of the page is
\* appended with the conversation's id; the loop ends when hasMore is false.
Replies ==
    /\ pc = "replies"
    /\ \E outcome \in {"ok"} \cup Failures :
          /\ Issue("GetConversationReplies", p, outcome)
          /\ IF outcome # "ok"
             THEN IF ratelimitOrPanic(outcome) = "panic"
                  THEN Panic(outcome)
                       /\ UNCHANGED <<p, messagesToDelete, found, total, mj,
                                      remote, origin>>
                  ELSE UNCHANGED <<pc, panicked, p, messagesToDelete, found,
                                   total, mj, remote, origin>>
             ELSE \E page \in ReplyPages(ReplyUniverse(res.Messages[mj], beforeTSUnix),
                                         remote.replies, remote.repliesLeft) :
                  LET n == Len(page.items)
                  IN  /\ messagesToDelete' = messagesToDelete \o
                             [i \in 1..n |->
                                 [page.items[i] EXCEPT !.Channel = channels[ci].ID]]
                      /\ origin' = origin \o [i \in 1..n |-> "reply"]
                      /\ total' = total + n
                      /\ found' = found + n
                      /\ UNCHANGED panicked
                      /\ IF ~page.hasMore
                         THEN /\ mj' = mj + 1
                              /\ pc' = "scan"
                              /\ remote' = [remote EXCEPT
                                                !.replies = NoReplies,
                                                !.repliesLeft = @ - n]
                              /\ p' = NoParams
                         ELSE /\ p' = [p EXCEPT !.Cursor = page.next]
                              /\ remote' = [remote EXCEPT
                                                !.replies = [pos |-> page.pos,
                                                             served |-> @.served + 1],
                                                !.repliesLeft = @ - n]
                              /\ UNCHANGED <<pc, mj>>
    /\ UNCHANGED <<flagVars, cleanVars, userVars, re, channels, cursor, ci,
                   fileVars, keep, last, res, di, resolved, seen, pass, tsVars>>

\* Lines 388-399, the end of a page: leave the loop when HasMore is false,
\* otherwise take the next cursor.
PageEnd ==
    /\ pc = "scan"
    /\ mj > Len(res.Messages)
    /\ IF ~HasMoreHistory(res)
       THEN /\ ci' = ci + 1
            /\ pc' = "messages"
            /\ cursor' = 0
            /\ seen' = <<>>
            /\ remote' = [remote EXCEPT !.msgs = NoListing]
            /\ UNCHANGED last
       ELSE /\ cursor' = res.NextCursor
            /\ last' = found
            /\ pc' = "history"
            /\ UNCHANGED <<ci, remote, seen>>
    /\ res' = NoPage
    /\ mj' = 0
    /\ UNCHANGED <<panicked, flagVars, cleanVars, userVars, re, channels, p,
                   fileVars, messagesToDelete, found, keep, total, di,
                   lastCall, issued, resolved, origin, pass, tsVars>>

(***************************************************************************)
(* main, lines 83-88: the report, and the exit of a run without --commit.  *)
(***************************************************************************)
\* Line 85 without the test of --commit: the run always goes on to delete.
DryRunNever(c) == FALSE

\* Line 85: without --commit the run exits after the report.
DryRun(c) == ~c

Report ==
    /\ pc = "report"
    /\ IF DryRun(commit)
       THEN pc' = "exit" /\ UNCHANGED di
       ELSE pc' = "delmsgs" /\ di' = 1
    /\ UNCHANGED <<panicked, flagVars, cleanVars, userVars, re, channels, cursor,
                   ci, p, fileVars, msgVars, pageVars, remote, obsVars, tsVars>>

(***************************************************************************)
(* DeleteMessages, lines 408-427, and DeleteFiles, lines 429-447.          *)
(***************************************************************************)
\* The loop body without the not-found test of lines 414-416 and 434-436.
OnDeleteErrorNoGone(err, notFound) ==
    IF ratelimitOrPanic(err) = "panic" THEN "panic" ELSE "continue"

\* The loop body leaving the retry loop after a rate limit (break for
\* continue at lines 418 and 438): the item is passed over.
OnDeleteErrorSkip(err, notFound) ==
    IF err = notFound THEN "break"
    ELSE IF ratelimitOrPanic(err) = "panic" THEN "panic"
    ELSE "break"

\* What the loop body does with the error of a delete (lines 413-419 and
\* 433-439): leave the retry loop on the not-found text, else retry on a
\* rate limit, else panic.
OnDeleteError(err, notFound) ==
    IF err = notFound THEN "break"
    ELSE IF ratelimitOrPanic(err) = "panic" THEN "panic"
    ELSE "continue"

\* What the remote answers to a delete of an item.
DeleteAnswers(isGone, notFound) ==
    (IF isGone THEN {notFound} ELSE {"ok"}) \cup Failures

\* The range left one item early.
RangeDoneEarly(i, items) == i >= Len(items)

\* Lines 409 and 430: the range over the items has passed the last of them.
RangeDone(i, items) == i > Len(items)

\* Line 409: the range is over; DeleteMessages returns.
DeleteMessagesReturn ==
    /\ pc = "delmsgs"
    /\ RangeDone(di, messagesToDelete)
    /\ pc' = "delfiles"
    /\ di' = 1
    /\ UNCHANGED <<panicked, flagVars, cleanVars, userVars, re, channels, cursor,
                   ci, p, fileVars, msgVars, pageVars, remote, obsVars, tsVars>>

\* Lines 411-425: one DeleteMessage call for the message at hand.
DeleteMessage ==
    /\ pc = "delmsgs"
    /\ ~RangeDone(di, messagesToDelete)
    /\ LET m == messagesToDelete[di]
       IN  \E outcome \in DeleteAnswers(MsgKey(m) \in remote.goneMsgs, ErrMsgGone) :
              /\ Issue("DeleteMessage", MsgKey(m), outcome)
              /\ LET todo == IF outcome = "ok" THEN "break"
                             ELSE OnDeleteError(outcome, ErrMsgGone)
                 IN  IF todo = "panic"
                     THEN Panic(outcome) /\ UNCHANGED <<di, remote, resolved>>
                     ELSE IF todo = "continue"
                          THEN UNCHANGED <<pc, panicked, di, remote, resolved>>
                          ELSE /\ di' = di + 1
                               /\ resolved' = Append(resolved, <<"message", MsgKey(m)>>)
                               /\ remote' = IF outcome = "ok"
                                            THEN [remote EXCEPT
                                                     !.goneMsgs = @ \cup {MsgKey(m)}]
                                            ELSE remote
                               /\ UNCHANGED <<pc, panicked>>
    /\ UNCHANGED <<flagVars, cleanVars, userVars, re, channels, cursor, ci, p,
                   fileVars, msgVars, pageVars, seen, origin, pass, tsVars>>

\* Line 430: the range is over; DeleteFiles returns and main finishes.
DeleteFilesReturn ==
    /\ pc = "delfiles"
    /\ RangeDone(di, filesToDelete)
    /\ pc' = "done"
    /\ UNCHANGED <<panicked, flagVars, cleanVars, userVars, re, channels, cursor,
                   ci, p, fileVars, msgVars, pageVars, di, remote, obsVars, tsVars>>

\* Lines 431-445: one DeleteFile call for the file at hand.
DeleteFile ==
    /\ pc = "delfiles"
    /\ ~RangeDone(di, filesToDelete)
    /\ LET f == filesToDelete[di]
       IN  \E outcome \in DeleteAnswers(f.ID \in remote.goneFiles, ErrFileGone) :
              /\ Issue("DeleteFile", FileKey(f), outcome)
              /\ LET todo == IF outcome = "ok" THEN "break"
                             ELSE OnDeleteError(outcome, ErrFileGone)
                 IN  IF todo = "panic"
                     THEN Panic(outcome) /\ UNCHANGED <<di, remote, resolved>>
                     ELSE IF todo = "continue"
                          THEN UNCHANGED <<pc, panicked, di, remote, resolved>>
                          ELSE /\ di' = di + 1
                               /\ resolved' = Append(resolved, <<"file", FileKey(f)>>)
                               /\ remote' = IF outcome = "ok"
                                            THEN [remote EXCEPT
                                                     !.goneFiles = @ \cup {f.ID}]
                                            ELSE remote
                               /\ UNCHANGED <<pc, panicked>>
    /\ UNCHANGED <<flagVars, cleanVars, userVars, re, channels, cursor, ci, p,
                   fileVars, msgVars, pageVars, seen, origin, pass, tsVars>>

\* The deletion passes of lines 90-94 run once more over the same
\* messagesToDelete and filesToDelete.
Rerun ==
    /\ pc = "done"
    /\ pass < MaxPasses
    /\ pass' = pass + 1
    /\ pc' = "delmsgs"
    /\ di' = 1
    /\ resolved' = <<>>
    /\ lastCall' = NoCall
    /\ UNCHANGED <<panicked, flagVars, cleanVars, userVars, re, channels, cursor,
                   ci, p, fileVars, msgVars, pageVars, remote, issued, seen, origin, tsVars>>

(***************************************************************************)
(* The run                                                                 *)
(***************************************************************************)
Next ==
    \/ Main
    \/ New
    \/ Users
    \/ ChannelsBegin
    \/ Channels
    \/ FilesRange
    \/ ListFiles
    \/ MessagesRange
    \/ History
    \/ Scan
    \/ Replies
    \/ PageEnd
    \/ Report
    \/ DeleteMessagesReturn
    \/ DeleteMessage
    \/ DeleteFilesReturn
    \/ DeleteFile
    \/ Rerun

Spec == Init /\ [][Next]_vars

\* A step of the run in which no remote call fails.
OkNext == Next /\ lastCall'.outcome \notin Failures

\* The run as a sequential process that is never suspended: it keeps taking
\* its next step as long as the remote answers without failure.
FairSpec == Spec /\ WF_vars(OkNext)

(***************************************************************************)
(* The timestamp functions on their own: New's cutoff for a value of       *)
(* --before against the timestamp of a message (line 325), and             *)
(* SlackTSToTime followed by TimeToSlackTS on an encoded timestamp.        *)
(***************************************************************************)
\* Accepted values of --before: 2000-01-01 00:00 (946684800, nine digits of
\* seconds), 2001-09-09 01:47 (1000000020, ten digits) and 2020-05-01 00:00.
TsBeforeInputs ==
    { <<50, 48, 48, 48, 48, 49, 48, 49, 45, 48, 48, 48, 48>>,
      <<50, 48, 48, 49, 48, 57, 48, 57, 45, 48, 49, 52, 55>>,
      <<50, 48, 50, 48, 48, 53, 48, 49, 45, 48, 48, 48, 48>> }

\* Seconds and microseconds of a timestamp: the epoch, one digit, nine and
\* ten digits, and the seconds around the cutoffs.
TsSecInputs ==
    {0, 1, 946684799, 946684800, 999999999, 1000000000,
     1588291199, 1588291200, 1588291201}

TsUsecInputs == {0, 1, 99999, 100000, 999999}

TsInit ==
    /\ Idle
    /\ arg \in [before : TsBeforeInputs, sec : TsSecInputs, usec : TsUsecInputs]
    /\ ret = NoRet

\* Lines 118 and 325: the cutoff New derives from --before, and the test of
\* a message timestamp against it.
CompareTS ==
    /\ ret = NoRet
    /\ LET cut == TimeToSlackTS(ParseBefore(arg.before).unix, 0)
           m   == [Timestamp |-> EncodeTS(arg.sec, arg.usec)]
       IN  ret' = [of |-> "compare", cutoff |-> cut.ts,
                   kept |-> KeptByTime(m, cut.ts)]
    /\ UNCHANGED <<vars_run, arg>>

\* Lines 130-140: decode an encoded timestamp and encode the instant again.
RoundTripTS ==
    /\ ret = NoRet
    /\ LET ts   == EncodeTS(arg.sec, arg.usec)
           t    == SlackTSToTime(ts)
           back == TimeToSlackTS(t.sec, t.usec)
       IN  ret' = [of |-> "roundtrip", ts |-> ts, t |-> t,
                   panic |-> back.panic, back |-> back.ts]
    /\ UNCHANGED <<vars_run, arg>>

TsNext ==
    \/ CompareTS
    \/ RoundTripTS

TsSpec == TsInit /\ [][TsNext]_vars

(***************************************************************************)
(* Properties                                                              *)
(***************************************************************************)
IsPrefix(a, b) == Len(a) <= Len(b) /\ a = SubSeq(b, 1, Len(a))

\* The deletion sequence: every message of messagesToDelete, then every file
\* of filesToDelete.
DeletionSeq ==
    [i \in 1..Len(messagesToDelete) |-> <<"message", MsgKey(messagesToDelete[i])>>]
    \o [i \in 1..Len(filesToDelete) |-> <<"file", FileKey(filesToDelete[i])>>]

\* The instant of an encoded timestamp is strictly before the cutoff (the
\* cutoff is a whole number of seconds).
TsBeforeCutoff(ts, cutoff) == SlackTSToTime(ts).sec < cutoff

DirNames == {UserDir[i].Name : i \in 1..Len(UserDir)}

\* C1: in a run without --commit no DeleteMessage and no DeleteFile call is
\* ever issued, whatever the workspace holds and however the calls fail.
DryRunIssuesNoDelete ==
    ~commit => issued \cap DeleteOps = {}

\* A dry run that found messages and files to delete and has exited.
DryRunWitness ==
    /\ pc = "exit" /\ ~commit
    /\ messagesToDelete # <<>> /\ filesToDelete # <<>>

\* C2: with an author filter for identity X, every message and every file of
\* the deletion set is authored or owned by X.
AuthorFilterDeletesOnlyByAuthor ==
    userID # "" =>
        /\ \A i \in 1..Len(messagesToDelete) : messagesToDelete[i].User = userID
        /\ \A i \in 1..Len(filesToDelete) : filesToDelete[i].User = userID

\* C3: a message of the history listing is in the deletion set only if its
\* timestamp is strictly before the cutoff.
HistoryMessageStrictlyBeforeCutoff ==
    \A i \in 1..Len(messagesToDelete) :
        origin[i] = "history" =>
            TsBeforeCutoff(messagesToDelete[i].Timestamp, beforeTSUnix)

SecondPassIdempotent ==
    pass >= 2 =>
        /\ remote.goneMsgs =
               {MsgKey(messagesToDelete[i]) : i \in 1..Len(messagesToDelete)}
        /\ remote.goneFiles = {filesToDelete[i].ID : i \in 1..Len(filesToDelete)}
        /\ lastCall.outcome # "ok"
        /\ (pc = "aborted" => lastCall.outcome = ErrInternal)
        /\ (lastCall.outcome \in {ErrMsgGone, ErrFileGone} =>
               /\ resolved # <<>>
               /\ resolved[Len(resolved)][2] = lastCall.args)
        /\ IsPrefix(resolved, DeletionSeq)

\* The second run has gone through messages and files and finished.
SecondPassWitness ==
    /\ pass = 2 /\ pc = "done"
    /\ messagesToDelete # <<>> /\ filesToDelete # <<>>
    /\ resolved = DeletionSeq

\* C6: a remote operation that fails as rate-limited never ends the run.
RateLimitNeverAborts ==
    lastCall.outcome = ErrRateLimited => pc # "aborted"

\* C7: a remote operation that fails with a terminal error ends the run with
\* that error, nothing runs after the end (no retry, no further call), and a
\* run that ended in a listing has issued no delete.
TerminalErrorAborts ==
    /\ lastCall.outcome = ErrInternal => pc = "aborted" /\ panicked = ErrInternal
    /\ pc = "aborted" => ~ENABLED Next
    /\ (pc = "aborted" /\ lastCall.op \in ListingOps) => issued \cap DeleteOps = {}

\* A DeleteFile call failed with a terminal error after other items were
\* deleted, and the run has ended there.
TerminalErrorWitness ==
    /\ pc = "aborted"
    /\ lastCall.op = "DeleteFile" /\ lastCall.outcome = ErrInternal
    /\ resolved # <<>>

\* C8: the items whose delete has resolved are a prefix of the deletion
\* sequence (messages, then files, each in append order); a delete call is for
\* the item right after that prefix; and in the first run the remote has lost
\* exactly the items of the prefix.
DeletesInOrder ==
    /\ IsPrefix(resolved, DeletionSeq)
    /\ lastCall.op \in DeleteOps =>
          LET k == IF lastCall.outcome \in {"ok", ErrMsgGone, ErrFileGone}
                   THEN Len(resolved) ELSE Len(resolved) + 1
          IN  /\ k \in 1..Len(DeletionSeq)
              /\ DeletionSeq[k] =
                     <<IF lastCall.op = "DeleteMessage" THEN "message" ELSE "file",
                       lastCall.args>>
    /\ pass = 1 =>
          /\ remote.goneMsgs =
                 {resolved[i][2] :
                      i \in {j \in 1..Len(resolved) : resolved[j][1] = "message"}}
          /\ remote.goneFiles =
                 {resolved[i][2][1] :
                      i \in {j \in 1..Len(resolved) : resolved[j][1] = "file"}}

\* Every message (at least two) and then one file have been deleted.
DeletesInOrderWitness ==
    /\ pass = 1 /\ pc = "delfiles"
    /\ Len(messagesToDelete) >= 2
    /\ Len(resolved) = Len(messagesToDelete) + 1

\* Malformed input: no credential, a --before that is missing or does not
\* parse, a --user that no identity has.
Malformed ==
    /\ pc # "main"
    /\ \/ token = ""
       \/ before = NoStr
       \/ ParseBefore(before).err
       \/ (user # NoStr /\ user \notin DirNames)

\* C9, as claimed: on malformed input the run ends at startup and no remote
\* call at all has been issued.
MalformedInputIssuesNoCall ==
    Malformed => pc \in {"new", "users", "aborted"} /\ issued = {}

\* C9, amended: on malformed input the run ends at startup; no conversation,
\* file, message or reply listing and no delete is issued; without a
\* credential or a parseable --before no call at all is issued, and for an
\* unknown --user only the identity listing that looks the name up.
MalformedInputAbortsBeforeHarvest ==
    Malformed =>
        /\ pc \in {"new", "users", "aborted"}
        /\ issued \subseteq {"GetUsers"}
        /\ (token = "" \/ before = NoStr \/ ParseBefore(before).err) => issued = {}

\* The run has ended because --user names no identity.
UnknownUserWitness ==
    /\ pc = "aborted" /\ panicked = "could not find user"
    /\ user = Carol /\ issued = {"GetUsers"}

FlattenUpTo(listing, n) == Flatten(SubSeq(listing, 1, n))

NoMessageTwice ==
    /\ \A i \in 1..Len(messagesToDelete) :
          origin[i] = "reply" => messagesToDelete[i].Channel # ""
    /\ \A i, j \in 1..Len(messagesToDelete) :
          i < j => MsgKey(messagesToDelete[i]) # MsgKey(messagesToDelete[j])

\* C12: every message and every file of the deletion set is older than the
\* cutoff; nothing whose time is at or after the cutoff is ever in it,
\* whoever its author is.
NothingAtOrAfterCutoff ==
    /\ \A i \in 1..Len(messagesToDelete) :
          TsBeforeCutoff(messagesToDelete[i].Timestamp, beforeTSUnix)
    /\ \A i \in 1..Len(filesToDelete) :
          filesToDelete[i].Created < beforeTSUnix

\* C13: the file harvest passes on the cursor a page returned: after a page
\* of a file listing that names a next page, the parameters of the next
\* ListFiles request carry that cursor, so that each page is requested once.
FileCursorAdvances ==
    ( /\ pc = "listfiles"
      /\ lastCall.op = "ListFiles" /\ lastCall.outcome = "ok" ) =>
        p.Cursor = PageAt(remote.files, lastCall.args.Cursor).next

\* The text of an identity's id.
IdText(id) ==
    IF id = "U1" THEN <<85, 49>>
    ELSE IF id = "U2" THEN <<85, 50>>
    ELSE IF id = "U9" THEN <<85, 57>>
    ELSE NoStr

\* C14: a direct conversation is matched against the pattern by its peer's
\* name from the users map, and by the peer's raw id when the map does not
\* hold the peer: on the page just read, a direct conversation is selected
\* exactly when the pattern matches that name.
DirectNameFallsBackToPeerId ==
    ( /\ pc = "conversations" /\ ~re.nil
      /\ lastCall.op = "GetConversations" /\ lastCall.outcome = "ok" ) =>
        LET page == PageAt(remote.convs, lastCall.args.Cursor)
        IN  \A k \in 1..Len(page.items) :
                LET c    == page.items[k]
                    name == IF c.User \in DOMAIN users THEN users[c.User]
                            ELSE IdText(c.User)
                IN  c.IsIM =>
                       (MatchString(re.pattern, name)
                           <=> \E i \in 1..Len(channels) : channels[i] = c)

\* Numeric order of two instants given as seconds and microseconds.
InstantGreater(a, b) == a.sec > b.sec \/ (a.sec = b.sec /\ a.usec > b.usec)

\* C15: the string comparison of the message time test agrees with the
\* numeric comparison of the decoded timestamps: a message is kept (its
\* timestamp is greater than the cutoff, as strings) exactly when its instant
\* is later than the cutoff's.
ComparisonAgreesWithNumeric ==
    ret.of = "compare" =>
        (ret.kept <=> InstantGreater([sec |-> arg.sec, usec |-> arg.usec],
                                     SlackTSToTime(ret.cutoff)))

\* C20: an encoded timestamp that is decoded with SlackTSToTime and encoded
\* again with TimeToSlackTS gives the same seconds and microseconds and the
\* same string.
RoundTripIsIdentity ==
    ret.of = "roundtrip" =>
        /\ ret.t = [sec |-> arg.sec, usec |-> arg.usec]
        /\ ~ret.panic
        /\ ret.back = ret.ts

\* C16: when the deletion passes of a --commit run finish, the delete of
\* every message and then of every file of the deletion set has resolved (as
\* ok or not-found); DeleteMessages returns only when every message has; and
\* a rate-limited delete leaves the executor on the same item, which the
\* next call deletes again.
DeletionComplete ==
    [][ /\ (pc = "delmsgs" /\ pc' = "delfiles") =>
               Len(resolved) = Len(messagesToDelete)
        /\ pc' = "done" => resolved' = DeletionSeq
        /\ (lastCall'.op \in DeleteOps /\ lastCall'.outcome = ErrRateLimited) =>
               (di' = di /\ resolved' = resolved /\ pc' = pc)
        /\ ( /\ lastCall.op \in DeleteOps /\ lastCall.outcome = ErrRateLimited
             /\ lastCall' # lastCall ) =>
               (lastCall'.op = lastCall.op /\ lastCall'.args = lastCall.args)
      ]_vars

\* The first run of the passes has finished over at least two messages and
\* a file.
DeletionCompleteWitness ==
    /\ pc = "done" /\ pass = 1
    /\ Len(messagesToDelete) >= 2 /\ filesToDelete # <<>>
    /\ resolved = DeletionSeq
    /\ lastCall.op = "DeleteFile" /\ lastCall.outcome = "ok"

\* The run has ended: the exit of a dry run, the end of the deletion passes,
\* or a panic.
Terminated == pc \in {"exit", "done", "aborted"}

\* C17: a run in which no remote call ever fails (no rate limit, no terminal
\* error), over listings of finitely many pages, eventually ends.
TerminatesWithoutFailures ==
    [](lastCall.outcome \notin Failures) => <>Terminated

\* The message harvest is under way (Messages has not returned).
InMessages == pc \in {"messages", "history", "scan", "replies"}

====
